---------------------------- MODULE Spec2Model ----------------------------
(***************************************************************************)
(* blip-machine (src/src/main.rs): a program text is compiled to a list of *)
(* instructions (compile), then interpreted (interpret): a population of   *)
(* threads is drained to Sin instructions (interpret_to_sin / recurse) and *)
(* then ticked once, writing one sample byte (interpret_sin).              *)
(*                                                                         *)
(* Conventions.                                                            *)
(*  - Program counters and line numbers are 0-based, as in the source;     *)
(*    TLA+ sequences are 1-based, so instructions[pc] is read with At.     *)
(*  - An f64 that comes from a source token is the exact rational          *)
(*    [n |-> numerator, d |-> denominator], reduced; the tokens of the     *)
(*    model are plain decimals (no exponent, no "inf"/"NaN" spellings).    *)
(*  - A sine value is an integer in units of 1/SinScale.                   *)
(*  - recurse is a recursive function; its pending calls are the sequence  *)
(*    todo (head = the call that runs next), so that one step of the model *)
(*    is one call of recurse.  frames holds, for each pending call, the    *)
(*    number of recurse frames that are on the machine stack when it runs; *)
(*    the stack holds StackDepth of them, and the call that needs one more *)
(*    overflows it, which ends the process.                                *)
(*  - The cast of NaN to u8 (interpret_sin, when no thread sounds) is      *)
(*    undefined in the language of the source; the compiled program gives  *)
(*    some byte, nan_u8, which the model draws from NaNCasts when the cast *)
(*    first meets a NaN.                                                   *)
(*  - One process runs main once.  With two processes on the same text     *)
(*    (TwoRuns) both generators are seeded alike, so the second to make    *)
(*    its k-th draw gets what the first got; lead holds the draws and the  *)
(*    observations (populations, bytes, the end) of the process ahead.     *)
(***************************************************************************)
EXTENDS Integers, Sequences, FiniteSets, TLC

VARIABLES
    runs,          \* the processes started on the text: each runs main once
    text,          \* the program text every process reads from stdin
    nan_u8,        \* the byte the build's f64-to-u8 cast gives for NaN,
                   \* Unknown until the cast first meets one
    pc,            \* pc[r]: position of main / interpret in process r
    instructions,  \* instructions[r]: compile's Ok value
    errors,        \* errors[r]: compile's Err value
    threads,       \* threads[r]: the thread population of interpret
    todo,          \* todo[r]: threads whose recurse call is pending
    frames,        \* frames[r][i]: the depth at which the call of todo[r][i] runs
    result,        \* result[r]: the result vector of interpret_to_sin
    written,       \* written[r]: the byte this step wrote to stdout, NoByte if none
    nbytes,        \* nbytes[r]: number of bytes written to stdout (saturating)
    fatal,         \* fatal[r]: why the process aborted, "" while it has not
    lead,          \* what the process that is ahead has drawn and shown, and the
                   \* other process has not yet
    who,           \* the process that is ahead
    diverged       \* whether two processes have shown different things

vars == <<runs, text, nan_u8, pc, instructions, errors, threads, todo, frames,
          result, written, nbytes, fatal, lead, who, diverged>>

-----------------------------------------------------------------------------
(* Bounds of the model *)

\* longest enumerated program text, in lines
MaxLines == 3
\* largest thread population the model follows
MaxThreads == 3
\* nbytes counts up to MaxCount and stays there
MaxCount == 6
\* a draw of the generator is one of 0/DrawDen .. (DrawDen-1)/DrawDen
DrawDen == 2
\* how many draws and observations one process may be ahead of the other
MaxLead == 3
\* how many frames of recurse the machine stack holds: more than the longest
\* chain of calls a program of the model makes without a backward jump
StackDepth == 6

(* Program constants *)

SAMPLE_RATE == 8000
\* largest value of a u8
U8Max == 255
\* sine values are integers in units of 1/SinScale
SinScale == 100000
\* the sine table has TurnUnits entries per turn
TurnUnits == 400

NoByte == -1
Unknown == -2

-----------------------------------------------------------------------------
(* Strings *)

Min(a, b) == IF a < b THEN a ELSE b

RECURSIVE GCD(_, _)
GCD(a, b) == IF b = 0 THEN a ELSE GCD(b, a % b)

\* the pieces of s between occurrences of the one-character separator sep;
\* cur is the piece being read
RECURSIVE SplitAcc(_, _, _)
SplitAcc(s, sep, cur) ==
    IF s = "" THEN <<cur>>
    ELSE IF Head(s) = sep THEN <<cur>> \o SplitAcc(Tail(s), sep, "")
    ELSE SplitAcc(Tail(s), sep, cur \o Head(s))

\* line.split(" ")
Split(line) == SplitAcc(line, " ", "")

\* text.lines(): the pieces between "\n", without a final empty piece
Lines(t) ==
    LET ps == SplitAcc(t, "\n", "")
    IN  IF ps[Len(ps)] = "" THEN SubSeq(ps, 1, Len(ps) - 1) ELSE ps

-----------------------------------------------------------------------------
(* str::parse::<f64> on plain decimal tokens *)

Digits == <<"0", "1", "2", "3", "4", "5", "6", "7", "8", "9">>

IsDigit(c) == \E i \in 1..10 : Digits[i] = c

DigitVal(c) == (CHOOSE i \in 1..10 : Digits[i] = c) - 1

\* reads the digits and the optional point of s; n/d is the value read so far,
\* dot whether the point was seen, any whether a digit was seen
RECURSIVE ParseDec(_, _, _, _, _)
ParseDec(s, n, d, dot, any) ==
    IF s = "" THEN [ok |-> any, n |-> n, d |-> d]
    ELSE IF IsDigit(Head(s))
         THEN ParseDec(Tail(s), 10 * n + DigitVal(Head(s)),
                       IF dot THEN 10 * d ELSE d, dot, TRUE)
    ELSE IF Head(s) = "." /\ ~dot THEN ParseDec(Tail(s), n, d, TRUE, any)
    ELSE [ok |-> FALSE, n |-> 0, d |-> 1]

Reduce(n, d) ==
    LET g == GCD(IF n < 0 THEN -n ELSE n, d)
    IN  [n |-> n \div g, d |-> d \div g]

\* tok.parse::<f64>(): [ok |-> TRUE, v |-> the number] or [ok |-> FALSE]
ParseF64(tok) ==
    LET neg == tok # "" /\ Head(tok) = "-"
        r   == ParseDec(IF neg THEN Tail(tok) ELSE tok, 0, 1, FALSE, FALSE)
    IN  IF r.ok
        THEN [ok |-> TRUE, v |-> Reduce(IF neg THEN -r.n ELSE r.n, r.d)]
        ELSE [ok |-> FALSE, v |-> [n |-> 0, d |-> 1]]

\* a <= b and a < b on rationals with positive denominators
RatLe(a, b) == a.n * b.d <= b.n * a.d
RatLt(a, b) == a.n * b.d < b.n * a.d
Rat(n, d) == Reduce(n, d)


-----------------------------------------------------------------------------
(* enum Instruction, enum CompileError *)

Sin(freq, dur) == [op |-> "Sin", freq |-> freq, dur |-> dur]
\* PJump(p, line) and PFork(p, line): op is "PJump" or "PFork"
Branch(op, p, line) == [op |-> op, p |-> p, line |-> line]
PJump(p, line) == Branch("PJump", p, line)
PFork(p, line) == Branch("PFork", p, line)
Terminate == [op |-> "Terminate"]

CompileError(kind, i) == [kind |-> kind, line |-> i]

-----------------------------------------------------------------------------
(* compile, first loop: the label table *)

NoLabels == [x \in {} |-> 0]

\* variant: the label is given the index after the next instruction
Insert_OffByOne(lbls, ident, ctr) ==
    [x \in (DOMAIN lbls) \cup {ident} |-> IF x = ident THEN ctr + 1 ELSE lbls[x]]

Insert(lbls, ident, ctr) ==
    [x \in (DOMAIN lbls) \cup {ident} |-> IF x = ident THEN ctr ELSE lbls[x]]

\* the pattern ["lbl", ident]
IsLbl(splt) == Len(splt) = 2 /\ splt[1] = "lbl"

\* variant: the first loop advances ctr for every line that is no label
CountsLine_Every(splt) == Len(splt) >= 1

\* the test under which the first loop advances ctr for a line that is no label
CountsLine(splt) == Len(splt) > 1

\* the first loop over the lines from ls on; returns the label table
RECURSIVE LabelPass(_, _, _)
LabelPass(ls, lbls, ctr) ==
    IF ls = <<>> THEN lbls
    ELSE LET splt == Split(Head(ls))
         IN  IF IsLbl(splt)
             THEN LabelPass(Tail(ls), Insert(lbls, splt[2], ctr), ctr)
             ELSE LabelPass(Tail(ls), lbls,
                            IF CountsLine(splt) THEN ctr + 1 ELSE ctr)

-----------------------------------------------------------------------------
(* compile, second loop: one line gives at most one instruction or one error *)

Emit(ins) == [ins |-> <<ins>>, errs |-> <<>>]
\* variant: the error carries the 1-based number of the line
Fail_OneBased(kind, i) == [ins |-> <<>>, errs |-> <<CompileError(kind, i + 1)>>]
Fail(kind, i) == [ins |-> <<>>, errs |-> <<CompileError(kind, i)>>]
Skip == [ins |-> <<>>, errs |-> <<>>]

\* 0.0 <= num && num <= 1.0
ProbInRange(num) == RatLe(Rat(0, 1), num) /\ RatLe(num, Rat(1, 1))

\* the arm ["sin", freq, dur]
SinLine(splt, i) ==
    LET freqf == ParseF64(splt[2])
        durf  == ParseF64(splt[3])
    IN  IF ~freqf.ok THEN Fail("Num", i)
        ELSE IF ~durf.ok THEN Fail("Num", i)
        ELSE Emit(Sin(freqf.v, durf.v))

\* the arms ["pjump", lbl, prob] and ["pfork", lbl, prob]; op is "PJump" or "PFork"
BranchLine(splt, i, lbls, op) ==
    LET probf == ParseF64(splt[3])
    IN  IF splt[2] \notin DOMAIN lbls THEN Fail("Lbl", i)
        ELSE IF ~probf.ok THEN Fail("Num", i)
        ELSE IF ~ProbInRange(probf.v) THEN Fail("Prob", i)
        ELSE Emit(Branch(op, probf.v, lbls[splt[2]]))

\* the arm _: a blank line, or an unknown line
OtherLine(splt, i) ==
    IF Len(splt) = 1 /\ splt[1] = "" THEN Skip ELSE Fail("Syntax", i)

\* the match on splt
CompileLine(splt, i, lbls) ==
    IF IsLbl(splt) THEN Skip
    ELSE IF Len(splt) = 3 /\ splt[1] = "sin" THEN SinLine(splt, i)
    ELSE IF Len(splt) = 3 /\ splt[1] = "pjump" THEN BranchLine(splt, i, lbls, "PJump")
    ELSE IF Len(splt) = 3 /\ splt[1] = "pfork" THEN BranchLine(splt, i, lbls, "PFork")
    ELSE OtherLine(splt, i)

\* variant: an instruction is put in front of those of the lines before it
RECURSIVE EmitPass_Reversed(_, _, _, _, _)
EmitPass_Reversed(ls, i, lbls, ins, errs) ==
    IF ls = <<>> THEN [ins |-> ins, errs |-> errs]
    ELSE LET r == CompileLine(Split(Head(ls)), i, lbls)
         IN  EmitPass_Reversed(Tail(ls), i + 1, lbls, r.ins \o ins, errs \o r.errs)

\* the second loop over the lines from ls on, i the number of the first of them
RECURSIVE EmitPass(_, _, _, _, _)
EmitPass(ls, i, lbls, ins, errs) ==
    IF ls = <<>> THEN [ins |-> ins, errs |-> errs]
    ELSE LET r == CompileLine(Split(Head(ls)), i, lbls)
         IN  EmitPass(Tail(ls), i + 1, lbls, ins \o r.ins, errs \o r.errs)

\* variant: compile gives up at the first error and returns it alone
CompileResult_FirstError(ins, errs) ==
    IF Len(errs) = 0
    THEN [ok |-> TRUE, instructions |-> ins, errors |-> <<>>]
    ELSE [ok |-> FALSE, instructions |-> <<>>, errors |-> <<Head(errs)>>]

\* what compile returns for what the two loops collected
CompileResult(ins, errs) ==
    IF Len(errs) = 0
    THEN [ok |-> TRUE, instructions |-> ins, errors |-> <<>>]
    ELSE [ok |-> FALSE, instructions |-> <<>>, errors |-> errs]

compile(t) ==
    LET ls   == Lines(t)
        lbls == LabelPass(ls, NoLabels, 0)
        r    == EmitPass(ls, 0, lbls, <<>>, <<>>)
    IN  CompileResult(Append(r.ins, Terminate), r.errs)

-----------------------------------------------------------------------------
(* struct ThreadState, sine_wave *)

ThreadState(sin_progress, p) == [sin_progress |-> sin_progress, pc |-> p]

\* instructions[p], p 0-based
At(ins, p) == ins[p + 1]
InBounds(ins, p) == p >= 0 /\ p < Len(ins)

\* sin(2*PI*k/TurnUnits) for k = 0 .. TurnUnits/4, in units of 1/SinScale
QuarterSine ==
    << 0, 1571, 3141, 4711, 6279, 7846, 9411, 10973,
       12533, 14090, 15643, 17193, 18738, 20279, 21814, 23345,
       24869, 26387, 27899, 29404, 30902, 32392, 33874, 35347,
       36812, 38268, 39715, 41151, 42578, 43994, 45399, 46793,
       48175, 49546, 50904, 52250, 53583, 54902, 56208, 57501,
       58779, 60042, 61291, 62524, 63742, 64945, 66131, 67301,
       68455, 69591, 70711, 71813, 72897, 73963, 75011, 76041,
       77051, 78043, 79016, 79968, 80902, 81815, 82708, 83581,
       84433, 85264, 86074, 86863, 87631, 88377, 89101, 89803,
       90483, 91140, 91775, 92388, 92978, 93544, 94088, 94609,
       95106, 95579, 96029, 96456, 96858, 97237, 97592, 97922,
       98229, 98511, 98769, 99002, 99211, 99396, 99556, 99692,
       99803, 99889, 99951, 99988, 100000 >>

\* sin(2*PI*k/TurnUnits) for any k >= 0, in units of 1/SinScale
SinOfTurn(k) ==
    LET r == k % TurnUnits
        h == TurnUnits \div 2
        q == TurnUnits \div 4
    IN  IF r <= q THEN QuarterSine[r + 1]
        ELSE IF r <= h THEN QuarterSine[h - r + 1]
        ELSE IF r <= h + q THEN -QuarterSine[r - h + 1]
        ELSE -QuarterSine[TurnUnits - r + 1]

\* (2.0*PI*(step as f64)*freq/SAMPLE_RATE).sin(), for the frequencies whose
\* angle step*freq/SAMPLE_RATE is a whole number of 1/TurnUnits turns
sine_wave(freq, step) ==
    SinOfTurn((step * freq.n) \div ((SAMPLE_RATE \div TurnUnits) * freq.d))

-----------------------------------------------------------------------------
(* interpret_to_sin: bernoulli_trial and one call of recurse *)

\* variant: the range of the draws includes 1
Draws_Inclusive == {Rat(k, DrawDen) : k \in 0..DrawDen}

\* the values Range::new(0_f64, 1_f64).ind_sample(rng) takes in the model
Draws == {Rat(k, DrawDen) : k \in 0..(DrawDen - 1)}

\* variant: p >= sample
bernoulli_trial_Ge(p, sample) == RatLe(sample, p)

\* p > sample
bernoulli_trial(p, sample) == RatLt(sample, p)

\* variant: a thread at a Sin starts its tone again
Park_Reset(t) == <<ThreadState(0, t.pc)>>

\* what recurse returns for a thread at a Sin: vec![thread]
Park(t) == <<t>>

\* variant: a taken jump leaves a thread behind at pc+1, as a fork does
JumpCalls_Both(t, ins, taken) ==
    IF taken THEN <<ThreadState(0, At(ins, t.pc).line), ThreadState(0, t.pc + 1)>>
    ELSE <<ThreadState(0, t.pc + 1)>>

\* the calls a PJump thread makes after its trial
JumpCalls(t, ins, taken) ==
    IF taken THEN <<ThreadState(0, At(ins, t.pc).line)>>
    ELSE <<ThreadState(0, t.pc + 1)>>

\* variant: the call at pc+1 runs before the call at the target
ForkCalls_TargetLast(t, ins, taken) ==
    IF taken THEN <<ThreadState(0, t.pc + 1), ThreadState(0, At(ins, t.pc).line)>>
    ELSE <<ThreadState(0, t.pc + 1)>>

\* the calls a PFork thread makes after its trial, in the order they run
ForkCalls(t, ins, taken) ==
    IF taken THEN <<ThreadState(0, At(ins, t.pc).line), ThreadState(0, t.pc + 1)>>
    ELSE <<ThreadState(0, t.pc + 1)>>

-----------------------------------------------------------------------------
(* interpret_sin *)

\* variant: <= in the place of <
Sounding_Le(t, ins) ==
    LET dur == At(ins, t.pc).dur
    IN  t.sin_progress * dur.d <= dur.n * SAMPLE_RATE

\* (thread.sin_progress as f64) < duration*SAMPLE_RATE
Sounding(t, ins) ==
    LET dur == At(ins, t.pc).dur
    IN  t.sin_progress * dur.d < dur.n * SAMPLE_RATE

IsSin(t, ins) == InBounds(ins, t.pc) /\ At(ins, t.pc).op = "Sin"

\* variant: a thread whose tone is over starts the tone again
TickThread_Repeat(t, ins) ==
    IF Sounding(t, ins) THEN ThreadState(t.sin_progress + 1, t.pc)
    ELSE ThreadState(0, t.pc)

\* the thread pushed to new_threads for t
TickThread(t, ins) ==
    IF Sounding(t, ins) THEN ThreadState(t.sin_progress + 1, t.pc)
    ELSE ThreadState(0, t.pc + 1)

\* new_threads
RECURSIVE NewThreads(_, _)
NewThreads(ts, ins) ==
    IF ts = <<>> THEN <<>>
    ELSE <<TickThread(Head(ts), ins)>> \o NewThreads(Tail(ts), ins)

\* current_samples
RECURSIVE CurrentSamples(_, _)
CurrentSamples(ts, ins) ==
    IF ts = <<>> THEN <<>>
    ELSE (IF Sounding(Head(ts), ins)
          THEN <<sine_wave(At(ins, Head(ts).pc).freq, Head(ts).sin_progress)>>
          ELSE <<>>) \o CurrentSamples(Tail(ts), ins)

RECURSIVE SumSeq(_)
SumSeq(xs) == IF xs = <<>> THEN 0 ELSE Head(xs) + SumSeq(Tail(xs))

\* variant: the cast rounds to the nearest byte
CastU8_Round(sum, len) ==
    (U8Max * (len * SinScale + sum) + len * SinScale) \div (2 * len * SinScale)

\* (127.5_f64*(1_f64 + avg)) as u8 for avg = sum/(len*SinScale), len > 0:
\* the cast truncates; 127.5*(1 + avg) = 255*(len*SinScale + sum)/(2*len*SinScale)
CastU8(sum, len) == (U8Max * (len * SinScale + sum)) \div (2 * len * SinScale)

\* what the cast of NaN to u8 can give, depending on the build: it is undefined
\* in the language (0 is what truncating the x86 conversion result gives)
NaNCasts == {0, 127, 128, U8Max}

\* what the cast of NaN gives in a build where it has given nan before
NaNCast(nan) == IF nan = Unknown THEN NaNCasts ELSE {nan}

\* the bytes the write can carry.  With no sample avg is 0.0/0.0 = NaN, and so
\* is what is cast
SampleBytes(samples, nan) ==
    IF Len(samples) = 0 THEN NaNCast(nan)
    ELSE {CastU8(SumSeq(samples), Len(samples))}

-----------------------------------------------------------------------------
(* Program texts *)

\* each line followed by "\n"
RECURSIVE JoinLines(_)
JoinLines(ls) == IF ls = <<>> THEN "" ELSE Head(ls) \o "\n" \o JoinLines(Tail(ls))

SeqsUpTo(S, n) == UNION {[1..k -> S] : k \in 0..n}

\* lines of programs that run
RunLines ==
    {"lbl a", "sin 2000 0.00025", "sin 1000 0",
     "pjump a 0", "pjump a 0.5", "pjump a 1",
     "pfork a 0", "pfork a 0.5", "pfork a 1"}

\* lines that are blank or that compile rejects
OtherLines ==
    {"", " ", "foo", "sin 440 x", "pjump b 1", "pfork a 1.5", "pjump a x"}

\* texts given whole
ScenarioTexts ==
    {"lbl a\nsin 100 0.5\npjump a 1\n",
     "pfork nowhere 0.5\n",
     "sin 1000 0.000375\n",
     "sin 2000 0.0005",
     "lbl a\nsin 2000 0.00025\npfork a 0.5\npjump a 0.5\n",
     "pfork a 0.5\npjump a 0.5\nsin 2000 0.00025\nlbl a\n",
     "pfork b 0.5\npjump a 0.5\nsin 2000 0.00025\nlbl b\nsin 1000 0.000375\nlbl a\n",
     "sin 1000 0\n\nfoo\nlbl a\npjump a 0\npfork a 2\n",
     "\npfork a 0.5\nlbl a\nsin 1000 0\n\npjump a 0\n",
     "lbl s\npfork a 0.5\nsin 2000 0.00025\nlbl a\nsin 1000 0.000375\npjump s 1\n"}

Texts ==
    {JoinLines(ls) : ls \in SeqsUpTo(RunLines \cup OtherLines, MaxLines)}
        \cup ScenarioTexts

\* lines and texts of the programs that two processes run side by side
TwoLines == {"lbl a", "sin 2000 0.00025", "pjump a 0.5", "pfork a 0.5"}

TwoTexts ==
    {JoinLines(ls) : ls \in SeqsUpTo(TwoLines, MaxLines)}
        \cup {"pfork nowhere 0.5\n", "sin 1000 0\n"}

-----------------------------------------------------------------------------
(* Two processes on one text: what one has drawn and shown ahead of the other *)

Draw(sample) == [kind |-> "draw", val |-> sample]
Shown(kind, val) == [kind |-> kind, val |-> val]

Behind(self) == Cardinality(runs) > 1 /\ ~diverged /\ lead # <<>> /\ who # self

\* variant: the generator of each process is seeded from its own entropy
NextSamples_Unseeded(self) == Draws

\* what the next call of ind_sample can return in process self: the generator is
\* seeded by build_rand with the same seed in every process, so the k-th draw of
\* one process is the k-th draw of the other
NextSamples(self) ==
    IF Behind(self) /\ Head(lead).kind = "draw" THEN {Head(lead).val} ELSE Draws

\* process self draws or shows e
Log(self, e) ==
    IF Cardinality(runs) = 1 \/ diverged
    THEN UNCHANGED <<lead, who, diverged>>
    ELSE IF ~Behind(self)
    THEN /\ Len(lead) < MaxLead
         /\ lead' = Append(lead, e)
         /\ who' = self
         /\ UNCHANGED diverged
    ELSE IF Head(lead).kind = e.kind /\ Head(lead).val = e.val
    THEN /\ lead' = Tail(lead)
         /\ UNCHANGED <<who, diverged>>
    ELSE /\ diverged' = TRUE
         /\ lead' = <<>>
         /\ UNCHANGED who

-----------------------------------------------------------------------------
(* main and interpret *)

Upd(f, self, v) == [f EXCEPT ![self] = v]

InitRuns(rs, ts) ==
    /\ runs = rs
    /\ text \in ts
    /\ nan_u8 = Unknown
    /\ pc = [r \in rs |-> "main"]
    /\ instructions = [r \in rs |-> <<>>]
    /\ errors = [r \in rs |-> <<>>]
    /\ threads = [r \in rs |-> <<>>]
    /\ todo = [r \in rs |-> <<>>]
    /\ frames = [r \in rs |-> <<>>]
    /\ result = [r \in rs |-> <<>>]
    /\ written = [r \in rs |-> NoByte]
    /\ nbytes = [r \in rs |-> 0]
    /\ fatal = [r \in rs |-> ""]
    /\ lead = <<>>
    /\ who = 1
    /\ diverged = FALSE

Init == InitRuns({1}, Texts)

\* every step that writes no byte
NoWrite(self) == written' = Upd(written, self, NoByte)

\* main: compile(&text) returned Ok; interpret starts with one thread
MainOk(self) ==
    /\ pc[self] = "main"
    /\ LET r == compile(text)
       IN  /\ r.ok
           /\ instructions' = Upd(instructions, self, r.instructions)
    /\ threads' = Upd(threads, self, <<ThreadState(0, 0)>>)
    /\ pc' = Upd(pc, self, "loop")
    /\ NoWrite(self)
    /\ UNCHANGED <<runs, text, nan_u8, errors, todo, frames, result, nbytes,
                   fatal, lead, who, diverged>>

\* main: compile(&text) returned Err; print_errors, nothing is interpreted
MainErr(self) ==
    /\ pc[self] = "main"
    /\ LET r == compile(text)
       IN  /\ ~r.ok
           /\ errors' = Upd(errors, self, r.errors)
    /\ pc' = Upd(pc, self, "failed")
    /\ NoWrite(self)
    /\ Log(self, Shown("failed", 0))
    /\ UNCHANGED <<runs, text, nan_u8, instructions, threads, todo, frames,
                   result, nbytes, fatal>>

\* interpret: threads.len() != 0, interpret_to_sin is called
LoopEnter(self) ==
    /\ pc[self] = "loop"
    /\ Len(threads[self]) # 0
    /\ todo' = Upd(todo, self, threads[self])
    /\ frames' = Upd(frames, self, [i \in 1..Len(threads[self]) |-> 1])
    /\ result' = Upd(result, self, <<>>)
    /\ pc' = Upd(pc, self, "drain")
    /\ NoWrite(self)
    /\ UNCHANGED <<runs, text, nan_u8, instructions, errors, threads, nbytes,
                   fatal, lead, who, diverged>>

\* interpret: threads.len() = 0, the loop and the run end
LoopExit(self) ==
    /\ pc[self] = "loop"
    /\ Len(threads[self]) = 0
    /\ pc' = Upd(pc, self, "done")
    /\ NoWrite(self)
    /\ Log(self, Shown("done", 0))
    /\ UNCHANGED <<runs, text, nan_u8, instructions, errors, threads, todo,
                   frames, result, nbytes, fatal>>

\* the process dies (an index out of bounds, the panic of interpret_sin, or
\* the overflow of the stack)
Abort(self, why) ==
    /\ pc' = Upd(pc, self, "aborted")
    /\ fatal' = Upd(fatal, self, why)
    /\ NoWrite(self)
    /\ Log(self, Shown("aborted", 0))
    /\ UNCHANGED <<runs, text, nan_u8, instructions, errors, threads, todo,
                   frames, result, nbytes>>

\* the calls pending after the head of todo made the calls cs: each of them
\* runs one frame deeper than the call that makes it
Continue(self, cs) ==
    /\ Len(cs) + Len(Tail(todo[self])) + Len(result[self]) <= MaxThreads
    /\ todo' = Upd(todo, self, cs \o Tail(todo[self]))
    /\ frames' = Upd(frames, self,
                     [k \in 1..Len(cs) |-> Head(frames[self]) + 1]
                         \o Tail(frames[self]))
    /\ NoWrite(self)
    /\ UNCHANGED <<runs, text, nan_u8, pc, instructions, errors, threads,
                   result, nbytes, fatal>>

\* one call of recurse, for the thread at the head of todo
Recurse(self) ==
    /\ pc[self] = "drain"
    /\ todo[self] # <<>>
    /\ LET t == Head(todo[self])
           prog == instructions[self]
       IN  IF Head(frames[self]) > StackDepth THEN Abort(self, "stack overflow")
           ELSE IF ~InBounds(prog, t.pc) THEN Abort(self, "index")
           ELSE LET ins == At(prog, t.pc)
                IN  CASE ins.op = "Sin" ->
                           /\ result' = Upd(result, self, result[self] \o Park(t))
                           /\ todo' = Upd(todo, self, Tail(todo[self]))
                           /\ frames' = Upd(frames, self, Tail(frames[self]))
                           /\ NoWrite(self)
                           /\ UNCHANGED <<runs, text, nan_u8, pc, instructions,
                                          errors, threads, nbytes, fatal,
                                          lead, who, diverged>>
                      [] ins.op = "PJump" ->
                           \E sample \in NextSamples(self) :
                               /\ Continue(self, JumpCalls(t, prog, bernoulli_trial(ins.p, sample)))
                               /\ Log(self, Draw(sample))
                      [] ins.op = "PFork" ->
                           \E sample \in NextSamples(self) :
                               /\ Continue(self, ForkCalls(t, prog, bernoulli_trial(ins.p, sample)))
                               /\ Log(self, Draw(sample))
                      [] ins.op = "Terminate" ->
                           /\ Continue(self, <<>>)
                           /\ UNCHANGED <<lead, who, diverged>>

\* interpret_to_sin returns result, which interpret assigns to threads
DrainReturn(self) ==
    /\ pc[self] = "drain"
    /\ todo[self] = <<>>
    /\ threads' = Upd(threads, self, result[self])
    /\ pc' = Upd(pc, self, "tick")
    /\ NoWrite(self)
    /\ Log(self, Shown("threads", result[self]))
    /\ UNCHANGED <<runs, text, nan_u8, instructions, errors, todo, frames,
                   result, nbytes, fatal>>

\* interpret_sin, and the assignment of what it returns to threads
InterpretSin(self) ==
    /\ pc[self] = "tick"
    /\ LET ts == threads[self]
           prog == instructions[self]
       IN  IF \E i \in 1..Len(ts) : ~InBounds(prog, ts[i].pc)
           THEN Abort(self, "index")
           ELSE IF \E i \in 1..Len(ts) : ~IsSin(ts[i], prog)
           THEN Abort(self, "interpret_sin precondition not met")
           ELSE \E byte \in SampleBytes(CurrentSamples(ts, prog), nan_u8) :
                    /\ written' = Upd(written, self, byte)
                    /\ nan_u8' = IF CurrentSamples(ts, prog) = <<>> THEN byte ELSE nan_u8
                    /\ nbytes' = Upd(nbytes, self, Min(nbytes[self] + 1, MaxCount))
                    /\ threads' = Upd(threads, self, NewThreads(ts, prog))
                    /\ pc' = Upd(pc, self, "loop")
                    /\ Log(self, Shown("byte", byte))
                    /\ UNCHANGED <<runs, text, instructions, errors,
                                   todo, frames, result, fatal>>

Next ==
    \/ \E self \in runs : MainOk(self)
    \/ \E self \in runs : MainErr(self)
    \/ \E self \in runs : LoopEnter(self)
    \/ \E self \in runs : LoopExit(self)
    \/ \E self \in runs : Recurse(self)
    \/ \E self \in runs : DrainReturn(self)
    \/ \E self \in runs : InterpretSin(self)

\* one process
Spec == Init /\ [][Next]_vars

\* the steps of interpret
InterpretNext ==
    \/ \E self \in runs : LoopEnter(self)
    \/ \E self \in runs : LoopExit(self)
    \/ \E self \in runs : Recurse(self)
    \/ \E self \in runs : DrainReturn(self)
    \/ \E self \in runs : InterpretSin(self)

\* one process; interpret, once called, takes its next step as long as it has
\* one (it is sequential code that waits for nothing)
FairSpec == Init /\ [][Next]_vars /\ WF_vars(InterpretNext)

\* two processes started on the same text
InitTwo == InitRuns({1, 2}, TwoTexts)

TwoRuns == InitTwo /\ [][Next]_vars

-----------------------------------------------------------------------------
(* Properties *)

Started(r) == pc[r] \notin {"main", "failed"}

\* the instruction list is [Sin(f, d), Terminate] with d * SAMPLE_RATE the whole
\* number n
SingleTone(ins, n) ==
    /\ Len(ins) = 2
    /\ ins[1].op = "Sin"
    /\ ins[2].op = "Terminate"
    /\ ins[1].dur.n * SAMPLE_RATE = n * ins[1].dur.d

\* C1: a run of [Sin(f, d), Terminate] with d * SAMPLE_RATE = n, a whole number
\* n >= 0, has written exactly n bytes when it ends.
C1_SingleToneWritesN ==
    \A r \in runs : \A n \in 0..(MaxCount - 1) :
        (pc[r] = "done" /\ SingleTone(instructions[r], n)) => nbytes[r] = n

\* C2: when interpret_to_sin has returned no thread, the next step of the run
\* is its end: no tick runs and no byte is written.
C2_EmptyPopulationStops ==
    [][\A r \in runs :
          (pc[r] = "tick" /\ threads[r] = <<>> /\ pc'[r] # pc[r])
              => (pc'[r] = "done" /\ written'[r] = NoByte /\ nbytes'[r] = nbytes[r])]_vars

\* C3: no run aborts: every thread whose instruction is about to be fetched,
\* in the drain and in the tick, has a pc inside the instruction list, and at
\* the tick every thread is at a Sin.
C3_NoFatalState ==
    \A r \in runs :
        /\ pc[r] # "aborted"
        /\ fatal[r] = ""
        /\ pc[r] = "drain" =>
               \A i \in 1..Len(todo[r]) : InBounds(instructions[r], todo[r][i].pc)
        /\ pc[r] = "tick" =>
               \A i \in 1..Len(threads[r]) :
                   /\ InBounds(instructions[r], threads[r][i].pc)
                   /\ At(instructions[r], threads[r][i].pc).op = "Sin"

\* C4: an instruction list compile returned has Terminate as its last element
\* and nowhere else, and every PJump and PFork target is an index of the list.
C4_TerminateLastTargetsValid ==
    \A r \in runs :
        Started(r) =>
            LET ins == instructions[r]
            IN  /\ Len(ins) >= 1
                /\ ins[Len(ins)].op = "Terminate"
                /\ \A i \in 1..(Len(ins) - 1) : ins[i].op # "Terminate"
                /\ \A i \in 1..Len(ins) :
                       ins[i].op \in {"PJump", "PFork"} =>
                           (0 <= ins[i].line /\ ins[i].line <= Len(ins) - 1)

\* compile returned a list whose fork goes to the final Terminate and whose
\* jump goes there too, past a Sin
C4_Witness ==
    \E r \in runs :
        LET ins == instructions[r]
        IN  /\ Started(r)
            /\ Len(ins) = 4
            /\ \E i \in 1..3 : ins[i].op = "PFork" /\ ins[i].line = 3
            /\ \E i \in 1..3 : ins[i].op = "PJump" /\ ins[i].line = 3
            /\ \E i \in 1..3 : ins[i].op = "Sin"

\* C5: two runs of the same program with generators seeded alike make the same
\* draws, go through the same thread populations after each drain, write the
\* same bytes and end alike.
C5_Deterministic ==
    /\ ~diverged
    /\ (\A r \in runs : pc[r] \in {"done", "failed", "aborted"}) =>
           /\ lead = <<>>
           /\ \A r1, r2 \in runs : nbytes[r1] = nbytes[r2] /\ pc[r1] = pc[r2]

\* two runs of a program with a fork of probability 1/2 have both ended after
\* writing four bytes or more
C5_Witness ==
    /\ Cardinality(runs) = 2
    /\ \A r \in runs :
           /\ pc[r] = "done"
           /\ nbytes[r] >= 4
           /\ \E i \in 1..Len(instructions[r]) :
                  instructions[r][i].op = "PFork" /\ instructions[r][i].p = Rat(1, 2)

\* what run r does next is a recurse call on the thread at the head of todo[r],
\* and the call has its frame and fetches its instruction
AtRecurse(r) ==
    /\ pc[r] = "drain"
    /\ todo[r] # <<>>
    /\ Head(frames[r]) <= StackDepth
    /\ InBounds(instructions[r], Head(todo[r]).pc)

HeadIns(r) == At(instructions[r], Head(todo[r]).pc)

\* C6: whatever is drawn, a PJump of probability 0 that is executed goes on at
\* pc+1 and a PJump of probability 1 at its target; a PFork of probability 0
\* spawns nothing and its one thread goes on at pc+1.
C6_ProbabilityZeroOne ==
    [][\A r \in runs :
          AtRecurse(r) =>
              LET t == Head(todo[r])
                  rest == Tail(todo[r])
              IN  /\ (HeadIns(r).op = "PJump" /\ HeadIns(r).p = Rat(0, 1)) =>
                         todo'[r] = <<ThreadState(0, t.pc + 1)>> \o rest
                  /\ (HeadIns(r).op = "PJump" /\ HeadIns(r).p = Rat(1, 1)) =>
                         todo'[r] = <<ThreadState(0, HeadIns(r).line)>> \o rest
                  /\ (HeadIns(r).op = "PFork" /\ HeadIns(r).p = Rat(0, 1)) =>
                         todo'[r] = <<ThreadState(0, t.pc + 1)>> \o rest]_vars

\* a PFork of probability 0 has just been passed by a thread that then parked
\* at the Sin after it: the population is that one thread
C6_Witness ==
    \E r \in runs :
        /\ pc[r] = "tick"
        /\ Len(threads[r]) = 1
        /\ threads[r][1].pc = 1
        /\ instructions[r][1].op = "PFork"
        /\ instructions[r][1].p = Rat(0, 1)
        /\ instructions[r][2].op = "Sin"

\* b is x truncated to a whole number, for x = 127.5 * (1 + sum/(len*SinScale))
IsTruncated(b, sum, len) ==
    /\ 2 * len * SinScale * b <= U8Max * (len * SinScale + sum)
    /\ U8Max * (len * SinScale + sum) < 2 * len * SinScale * (b + 1)

\* b is x rounded to the nearest whole number, for the same x
IsRounded(b, sum, len) ==
    /\ 2 * len * SinScale * b - len * SinScale <= U8Max * (len * SinScale + sum)
    /\ U8Max * (len * SinScale + sum) < 2 * len * SinScale * b + len * SinScale

\* run r ticks in this step
Ticks(r) == pc[r] = "tick" /\ pc'[r] = "loop"

SamplesOf(r) == CurrentSamples(threads[r], instructions[r])

\* C7 as stated: the byte written is 127.5 * (1 + mean) rounded, mean the mean
\* of the values of the threads that sound on the tick.
C7_ByteIsRounded ==
    [][\A r \in runs :
          (Ticks(r) /\ SamplesOf(r) # <<>>) =>
              IsRounded(written'[r], SumSeq(SamplesOf(r)), Len(SamplesOf(r)))]_vars

\* C7 as amended: on a tick where a thread sounds, the byte written is
\* 127.5 * (1 + mean) truncated: 127 for mean 0, 255 for mean 1, 0 for mean -1.
C7_ByteIsTruncated ==
    [][\A r \in runs :
          (Ticks(r) /\ SamplesOf(r) # <<>>) =>
              LET sum == SumSeq(SamplesOf(r))
                  len == Len(SamplesOf(r))
              IN  /\ IsTruncated(written'[r], sum, len)
                  /\ sum = 0 => written'[r] = 127
                  /\ sum = len * SinScale => written'[r] = U8Max
                  /\ sum = -len * SinScale => written'[r] = 0]_vars

\* the first byte of a run was written for one thread at step 0 of its tone,
\* and is 127
C7_Witness ==
    \E r \in runs :
        /\ pc[r] = "loop"
        /\ nbytes[r] = 1
        /\ written[r] = 127
        /\ Len(threads[r]) = 1
        /\ threads[r][1].sin_progress = 1

\* every PJump and PFork of ins goes to an index past its own
ForwardOnly(ins) ==
    \A i \in 1..Len(ins) :
        ins[i].op \in {"PJump", "PFork"} => ins[i].line > i - 1

LoopText == "lbl a\nsin 100 0.5\npjump a 1\n"

\* C9: the run of `lbl a / sin 100 0.5 / pjump a 1` never ends and never
\* aborts, its population is never empty after a drain, and it always writes
\* another byte (process 1 is the one process of FairSpec).
C9_LoopRunsForever ==
    (text = LoopText) =>
        /\ [](/\ pc[1] \notin {"done", "aborted", "failed"}
              /\ pc[1] = "tick" => threads[1] # <<>>)
        /\ [](pc[1] # "main" => <>(written[1] # NoByte))

\* the run of the loop is back at step 0 of the tone, after the jump
C9_Witness ==
    \E r \in runs :
        /\ text = LoopText
        /\ pc[r] = "tick"
        /\ nbytes[r] = MaxCount
        /\ nan_u8 # Unknown
        /\ threads[r] = <<ThreadState(0, 0)>>

\* the numbers of the lines of the text for which the second loop records an
\* error, in order
RECURSIVE ErrorLines(_, _, _)
ErrorLines(ls, i, lbls) ==
    IF ls = <<>> THEN <<>>
    ELSE (IF CompileLine(Split(Head(ls)), i, lbls).errs # <<>> THEN <<i>> ELSE <<>>)
             \o ErrorLines(Tail(ls), i + 1, lbls)

ErrorLinesOf(t) == ErrorLines(Lines(t), 0, LabelPass(Lines(t), NoLabels, 0))

\* C10: compile returns Err, with an error for every line that has one, if a
\* line has an error, and an instruction list only if no line has one (seen
\* when main has matched on what compile returned, before the first tick).
C10_AllOrNothing ==
    \A r \in runs :
        /\ pc[r] = "failed" =>
               /\ ErrorLinesOf(text) # <<>>
               /\ instructions[r] = <<>>
               /\ Len(errors[r]) = Len(ErrorLinesOf(text))
               /\ \A k \in 1..Len(errors[r]) : errors[r][k].line = ErrorLinesOf(text)[k]
        /\ (pc[r] = "loop" /\ nbytes[r] = 0) =>
               /\ ErrorLinesOf(text) = <<>>
               /\ errors[r] = <<>>
               /\ instructions[r] # <<>>

\* compile failed on a text whose first line is good and whose other two lines
\* each have an error
C10_Witness ==
    \E r \in runs :
        /\ pc[r] = "failed"
        /\ Len(errors[r]) = 2
        /\ errors[r][1].line = 1
        /\ errors[r][2].line = 2

\* tok reads as a number
IsNumber(tok) == ParseF64(tok).ok

\* the line that splits to splt is one compile accepts under the labels lbls:
\* the empty line, a label, a sin with two numbers, or a pjump or pfork to a
\* known label with a probability in [0, 1]
WellFormed(splt, lbls) ==
    \/ Len(splt) = 1 /\ splt[1] = ""
    \/ Len(splt) = 2 /\ splt[1] = "lbl"
    \/ Len(splt) = 3 /\ splt[1] = "sin" /\ IsNumber(splt[2]) /\ IsNumber(splt[3])
    \/ /\ Len(splt) = 3
       /\ splt[1] \in {"pjump", "pfork"}
       /\ splt[2] \in DOMAIN lbls
       /\ IsNumber(splt[3])
       /\ ProbInRange(ParseF64(splt[3]).v)

\* the labels of the text
LabelsOf(t) == LabelPass(Lines(t), NoLabels, 0)

\* the 0-based numbers of the lines of the text that compile does not accept
BadLines(t) ==
    {i \in 0..(Len(Lines(t)) - 1) : ~WellFormed(Split(Lines(t)[i + 1]), LabelsOf(t))}

\* C11: the error list compile returned has one error for each line it does
\* not accept and none for another line, each with the 0-based number of its
\* line, in increasing order of line.
C11_OneErrorPerBadLine ==
    \A r \in runs :
        pc[r] = "failed" =>
            /\ {errors[r][k].line : k \in 1..Len(errors[r])} = BadLines(text)
            /\ Len(errors[r]) = Cardinality(BadLines(text))
            /\ \A k \in 1..(Len(errors[r]) - 1) :
                   errors[r][k].line < errors[r][k + 1].line

\* compile failed on a text of six lines with an error on line 2 and one on
\* line 5, and returned two errors, for line 2 then for line 5
C11_Witness ==
    \E r \in runs :
        /\ pc[r] = "failed"
        /\ Len(Lines(text)) = 6
        /\ Len(errors[r]) = 2
        /\ errors[r][1].line = 2
        /\ errors[r][2].line = 5

\* every piece of the line is empty: the line is empty or made of spaces
IsBlank(splt) == \A k \in 1..Len(splt) : splt[k] = ""

\* the lines among ls that are neither blank nor labels, split, in order
RECURSIVE CodeLines(_)
CodeLines(ls) ==
    IF ls = <<>> THEN <<>>
    ELSE (IF IsBlank(Split(Head(ls))) \/ IsLbl(Split(Head(ls)))
          THEN <<>> ELSE <<Split(Head(ls))>>) \o CodeLines(Tail(ls))

\* instruction ins is the one written on the line that splits to splt
Renders(ins, splt) ==
    /\ Len(splt) = 3
    /\ \/ splt[1] = "sin" /\ ins.op = "Sin"
             /\ ins.freq = ParseF64(splt[2]).v /\ ins.dur = ParseF64(splt[3]).v
       \/ splt[1] = "pjump" /\ ins.op = "PJump" /\ ins.p = ParseF64(splt[3]).v
       \/ splt[1] = "pfork" /\ ins.op = "PFork" /\ ins.p = ParseF64(splt[3]).v

\* main has taken the Ok arm of its match and interpret is about to start
Compiled(r) == pc[r] = "loop" /\ nbytes[r] = 0

\* C12: the instruction list of a text that compiled has one instruction for
\* each line that is neither blank nor a label, in the order of the lines, and
\* one more element, the Terminate.
C12_OneInstructionPerCodeLine ==
    \A r \in runs :
        Compiled(r) =>
            LET ins == instructions[r]
                cl  == CodeLines(Lines(text))
            IN  /\ Len(ins) = Len(cl) + 1
                /\ \A k \in 1..Len(cl) : Renders(ins[k], cl[k])

\* a text with two blank lines, a label and three different instructions has
\* compiled
C12_Witness ==
    \E r \in runs :
        /\ Compiled(r)
        /\ Len(Lines(text)) = 6
        /\ Len(instructions[r]) = 4
        /\ instructions[r][1].op = "PFork"
        /\ instructions[r][2].op = "Sin"
        /\ instructions[r][3].op = "PJump"

\* the 1-based positions in ls of the lines `lbl ident`
LblLines(ls, ident) ==
    {i \in 1..Len(ls) : Split(ls[i]) = <<"lbl", ident>>}

\* the number of lines before position i of ls that are neither blank nor labels
CodeLinesBefore(ls, i) == Len(CodeLines(SubSeq(ls, 1, i - 1)))

\* the 1-based positions in ls of the lines that are neither blank nor labels
CodePositions(ls) ==
    {i \in 1..Len(ls) : ~IsBlank(Split(ls[i])) /\ ~IsLbl(Split(ls[i]))}

\* C13: in a text that compiled, a pjump or pfork to a label that is defined
\* once, written before or after the label, has as target the number of lines
\* before the label that are neither blank nor labels.
C13_LabelIsCodeLinesBefore ==
    \A r \in runs :
        Compiled(r) =>
            LET ls == Lines(text)
            IN  \A i \in CodePositions(ls) :
                    LET splt == Split(ls[i])
                        ins  == instructions[r][CodeLinesBefore(ls, i) + 1]
                    IN  (splt[1] \in {"pjump", "pfork"}
                         /\ Cardinality(LblLines(ls, splt[2])) = 1) =>
                            \A j \in LblLines(ls, splt[2]) :
                                ins.line = CodeLinesBefore(ls, j)

\* a text has compiled in which a pfork comes before the one definition of
\* its label and a pjump after it, with a blank line before the label: both
\* have as target the Sin that follows the label
C13_Witness ==
    \E r \in runs :
        /\ Compiled(r)
        /\ LblLines(Lines(text), "a") = {3}
        /\ Lines(text)[1] = ""
        /\ instructions[r][1].op = "PFork" /\ instructions[r][1].line = 1
        /\ instructions[r][2].op = "Sin"
        /\ instructions[r][3].op = "PJump" /\ instructions[r][3].line = 1

\* run r executes a PFork in this step and the fork is taken
ForkTaken(r) ==
    /\ AtRecurse(r)
    /\ HeadIns(r).op = "PFork"
    /\ Len(todo'[r]) = Len(todo[r]) + 1

\* the thread a taken fork of the head of todo[r] spawns, and the forking
\* thread as it goes on
Spawned(r) == ThreadState(0, HeadIns(r).line)
GoesOn(r) == ThreadState(0, Head(todo[r]).pc + 1)

\* the population threads[r] was one thread at a PFork with a Sin at its target
\* and another Sin after it, and the drain has returned result[r], two threads
ForkOfTwoSins(r) ==
    /\ pc[r] = "drain" /\ todo[r] = <<>> /\ Len(result[r]) = 2
    /\ Len(threads[r]) = 1
    /\ At(instructions[r], threads[r][1].pc).op = "PFork"
    /\ At(instructions[r], threads[r][1].pc).line # threads[r][1].pc + 1
    /\ At(instructions[r], At(instructions[r], threads[r][1].pc).line).op = "Sin"
    /\ At(instructions[r], threads[r][1].pc + 1).op = "Sin"

\* the drain takes the threads of the population from left to right, and a
\* thread that is at a Sin goes to the end of the result
InListOrder(r) ==
    /\ (pc[r] = "loop" /\ pc'[r] = "drain") => todo'[r] = threads[r]
    /\ (AtRecurse(r) /\ HeadIns(r).op = "Sin" /\ pc'[r] = "drain") =>
           /\ result'[r] = Append(result[r], Head(todo[r]))
           /\ todo'[r] = Tail(todo[r])

\* C14 as stated: the drain takes the threads in list order, and the thread a
\* taken PFork spawns is appended: it comes after the forking thread and after
\* the threads that were there already.
C14_SpawnedIsAppended ==
    [][\A r \in runs :
          /\ InListOrder(r)
          /\ ForkTaken(r) =>
                 todo'[r] = <<GoesOn(r)>> \o Tail(todo[r]) \o <<Spawned(r)>>
          /\ ForkOfTwoSins(r) =>
                 result[r] = <<ThreadState(0, threads[r][1].pc + 1),
                               ThreadState(0, At(instructions[r], threads[r][1].pc).line)>>]_vars

\* C14 as amended: the drain takes the threads in list order, and the thread a
\* taken PFork spawns at the target and the forking thread at pc+1 take, in
\* this order, the place of the forking thread: the spawned thread comes before
\* the forking thread and before the threads that follow it in the list.
C14_SpawnedTakesPlace ==
    [][\A r \in runs :
          /\ InListOrder(r)
          /\ ForkTaken(r) =>
                 todo'[r] = <<Spawned(r), GoesOn(r)>> \o Tail(todo[r])
          /\ ForkOfTwoSins(r) =>
                 result[r] = <<ThreadState(0, At(instructions[r], threads[r][1].pc).line),
                               ThreadState(0, threads[r][1].pc + 1)>>]_vars

\* a population of two, the first at a jump that leads to a fork, the second
\* in the middle of its tone, has been drained to three threads: the spawned
\* thread, the forking thread, and then the thread that was second
C14_Witness ==
    \E r \in runs :
        /\ pc[r] = "tick"
        /\ Len(threads[r]) = 3
        /\ threads[r][1] = ThreadState(0, 2)
        /\ threads[r][2] = ThreadState(0, 1)
        /\ threads[r][3].sin_progress > 0
        /\ instructions[r][1].op = "PFork" /\ instructions[r][1].line = 2

\* the threads of run r that a drain has in hand: those whose call is pending
\* and those already in the result
Live(r) == Len(todo[r]) + Len(result[r])

\* run r executes the instruction of the head of todo[r] in this step
Executes(r, op) == AtRecurse(r) /\ HeadIns(r).op = op /\ frames'[r] # frames[r]

HasFork(ins) == \E i \in 1..Len(ins) : ins[i].op = "PFork"

\* C15: a run starts with the one thread (pc 0, progress 0); a drain starts
\* with the population and ends with what it then has in hand; a Sin, a PJump
\* and a PFork not taken leave the number of threads in hand as it is, a PFork
\* taken adds one (one thread at the target, one at pc+1), a Terminate takes
\* one away, a tick changes nothing; without a PFork there is never more than
\* one thread.
C15_PopulationAccounting ==
    [][\A r \in runs :
          /\ (pc[r] = "main" /\ pc'[r] = "loop") => threads'[r] = <<ThreadState(0, 0)>>
          /\ (pc[r] = "loop" /\ pc'[r] = "drain") => Live(r)' = Len(threads[r])
          /\ (pc[r] = "drain" /\ pc'[r] = "tick") => Len(threads'[r]) = Live(r)
          /\ (pc[r] = "tick" /\ pc'[r] = "loop") => Len(threads'[r]) = Len(threads[r])
          /\ (Executes(r, "Sin") \/ Executes(r, "PJump")) => Live(r)' = Live(r)
          /\ Executes(r, "Terminate") => Live(r)' = Live(r) - 1
          /\ Executes(r, "PFork") =>
                 \/ todo'[r] = <<GoesOn(r)>> \o Tail(todo[r]) /\ Live(r)' = Live(r)
                 \/ /\ Live(r)' = Live(r) + 1
                    /\ todo'[r] = <<Spawned(r), GoesOn(r)>> \o Tail(todo[r])
          /\ ~HasFork(instructions[r]) => (Len(threads[r]) <= 1 /\ Live(r) <= 1)]_vars

\* the run of a program with a fork, which started with one thread, has a
\* population of three after a drain, and has written a byte
C15_Witness ==
    \E r \in runs :
        /\ pc[r] = "tick"
        /\ Len(threads[r]) = 3
        /\ nbytes[r] >= 1
        /\ HasFork(instructions[r])

\* N = d x SAMPLE_RATE for the tone sin = Sin(f, d), when it is a whole number
WholeTone(sin) == (sin.dur.n * SAMPLE_RATE) % sin.dur.d = 0
ToneLen(sin) == (sin.dur.n * SAMPLE_RATE) \div sin.dur.d

\* the values the threads ts contribute on a tick according to C16: a thread
\* at step k < N of its tone the value of step k, another thread none
RECURSIVE ToneValues(_, _)
ToneValues(ts, ins) ==
    IF ts = <<>> THEN <<>>
    ELSE LET t == Head(ts)
             sin == At(ins, t.pc)
         IN  (IF t.sin_progress < ToneLen(sin)
              THEN <<sine_wave(sin.freq, t.sin_progress)>> ELSE <<>>)
                 \o ToneValues(Tail(ts), ins)

\* C16: on a tick, a thread at step k of a tone of N steps has 0 <= k <= N; if
\* k < N it contributes the value of step k and stays at its pc with step k+1;
\* if k = N it contributes nothing and moves to pc+1 with step 0 (so a tone
\* of duration 0 contributes nothing); the byte written is the byte of the
\* values contributed.  Between two ticks the drain leaves the thread as it is.
C16_ToneTakesNTicks ==
    [][\A r \in runs :
          /\ Ticks(r) =>
                 /\ Len(threads'[r]) = Len(threads[r])
                 /\ \A i \in 1..Len(threads[r]) :
                        LET t == threads[r][i]
                            sin == At(instructions[r], t.pc)
                        IN  /\ sin.op = "Sin" /\ WholeTone(sin)
                            /\ 0 <= t.sin_progress /\ t.sin_progress <= ToneLen(sin)
                            /\ t.sin_progress < ToneLen(sin) =>
                                   threads'[r][i] = ThreadState(t.sin_progress + 1, t.pc)
                            /\ t.sin_progress = ToneLen(sin) =>
                                   threads'[r][i] = ThreadState(0, t.pc + 1)
                 /\ written'[r] \in
                        SampleBytes(ToneValues(threads[r], instructions[r]), nan_u8)
          /\ Executes(r, "Sin") => result'[r] = Append(result[r], Head(todo[r]))
          /\ (pc[r] = "drain" /\ pc'[r] = "tick") => threads'[r] = result[r]]_vars

\* the thread of a tone of two steps has contributed on two ticks, and on the
\* third tick it has moved to the next instruction with step 0
C16_Witness ==
    \E r \in runs :
        /\ pc[r] = "loop"
        /\ nbytes[r] = 3
        /\ threads[r] = <<ThreadState(0, 1)>>
        /\ instructions[r][1].op = "Sin"
        /\ ToneLen(instructions[r][1]) = 2

\* the bytes in the middle of the range of a u8: what mean 0 gives when
\* 127.5 is truncated and when it is rounded
Midpoints == {CastU8(0, 1), CastU8_Round(0, 1)}

\* C17: on a tick of a population that is not empty and in which no thread
\* sounds, the byte written is the midpoint byte, and the run goes on.
C17_SilentTickIsMidpoint ==
    [][\A r \in runs :
          (pc[r] = "tick" /\ pc'[r] # "tick"
           /\ threads[r] # <<>> /\ SamplesOf(r) = <<>>) =>
              /\ pc'[r] = "loop"
              /\ written'[r] \in Midpoints]_vars

\* the draw stream moves by exactly one draw in this step: the process that is
\* ahead draws one more, or the process that is behind takes the next one
OneDraw ==
    \/ \E d \in Draws : lead' = Append(lead, Draw(d))
    \/ lead # <<>> /\ Head(lead).kind = "draw" /\ lead' = Tail(lead)

\* C18: in the drain a thread at a Sin goes to the result as it is and no draw
\* is made for it; a PJump or PFork that is executed makes exactly one draw, and
\* the threads it goes on with have progress 0; a Terminate makes no draw.
C18_DrainFrame ==
    [][\A r \in runs :
          /\ Executes(r, "Sin") =>
                 /\ result'[r] = Append(result[r], Head(todo[r]))
                 /\ lead' = lead
          /\ (Executes(r, "PJump") \/ Executes(r, "PFork")) =>
                 /\ OneDraw
                 /\ result'[r] = result[r]
                 /\ \A k \in 1..(Len(todo'[r]) - Len(todo[r]) + 1) :
                        todo'[r][k].sin_progress = 0
          /\ Executes(r, "Terminate") => (lead' = lead /\ result'[r] = result[r])
          /\ (pc[r] = "drain" /\ pc'[r] = "tick") =>
                 \A i \in 1..Len(threads'[r]) :
                     \/ threads'[r][i].sin_progress = 0
                     \/ \E j \in 1..Len(threads[r]) : threads'[r][i] = threads[r][j]]_vars

\* of two runs of a program that starts with a jump of probability 1/2, one is
\* ahead of the other and has come through its second drain with its thread
\* at step 1 of the tone
C18_Witness ==
    \E r \in runs :
        /\ Cardinality(runs) = 2
        /\ lead # <<>>
        /\ pc[r] = "drain" /\ todo[r] = <<>>
        /\ result[r] = threads[r]
        /\ Len(threads[r]) = 1
        /\ threads[r][1].sin_progress = 1
        /\ instructions[r][1].op = "PJump"

\* C19: a line that is empty or made of spaces gets no error, and the index a
\* label gets counts no such line: it is at most the number of lines before
\* the label that are neither blank nor labels.
C19_BlankLinesAreSkipped ==
    \A r \in runs :
        LET ls == Lines(text)
        IN  /\ pc[r] = "failed" =>
                   \A k \in 1..Len(errors[r]) :
                       ~IsBlank(Split(ls[errors[r][k].line + 1]))
            /\ pc[r] \in {"failed", "loop"} =>
                   \A ident \in DOMAIN LabelsOf(text) :
                       \A j \in LblLines(ls, ident) :
                           Cardinality(LblLines(ls, ident)) = 1 =>
                               LabelsOf(text)[ident] <= CodeLinesBefore(ls, j)

\* the program C20 names: a jump cycle that holds no tone
CycleText == "lbl a\npjump a 1\n"

\* C20, for the program it names, where no draw decides anything: every drain
\* ends with the return of interpret_to_sin, after which the tick runs; the run
\* does not end in a drain, with calls of recurse still pending.
C20_DrainCompletes ==
    \A r \in runs :
        (text = CycleText /\ todo[r] # <<>>) => pc[r] # "aborted"

=============================================================================
